---- MODULE Spec2Model ----
(***************************************************************************)
(* A model of src/dynamixel_y.py: the DynamixelY driver (register          *)
(* transactions behind the _retry wrapper, torque and operating-mode       *)
(* control, the blocking set_position / set_velocity) and scan().          *)
(*                                                                         *)
(* One step of the model is one attempt of one transport transaction (one  *)
(* pass through the body of _retry's loop), or one call of the port        *)
(* handler (openPort, setBaudRate, ping, closePort).  The driver is        *)
(* single-threaded: pc is the place the one thread is at, stack the return *)
(* places of the methods it is inside.                                     *)
(***************************************************************************)
EXTENDS Integers, Sequences, FiniteSets, TLC

(* ------------------------------ bounds --------------------------------- *)

\* Serial ports comports() enumerates, in enumeration order 1..NumPorts.
NumPorts == 2

\* Resolution of the model's clock: ticks of time.perf_counter() per second.
TicksPerSecond == 2

\* Upsets within one public call: the failed transaction attempts the
\* transport produces, and the passes through a polling loop that find its
\* condition not yet met (the polling loops of the code are unbounded).
MaxUpsets == 2

(* ------------------------- program constants --------------------------- *)

\* time.perf_counter() + 1: the retry budget in seconds.
RetryBudget == 1

\* _OperatingMode
VELOCITY == 1
POSITION == 3

\* __wait_for_processing_torque
PROCESSING_TORQUE_ON == 4
PROCESSING_TORQUE_OFF == 6

\* dynamixel_sdk.COMM_SUCCESS, and a communication result that is not it.
COMM_SUCCESS == 0
COMM_RX_TIMEOUT == -3001

\* A non-zero device error code of a status packet (data range error).
ERRNUM_DATA_RANGE == 4

\* A controller state that is neither of the two processing states.
IDLE_STATE == 2

\* The value the velocity-limit register of the device holds.
VELOCITY_LIMIT_VALUE == 7

\* The 16-bit word the transport's raw values are made of.
WORD == 65536

Ports == 1..NumPorts

\* port_names = [p.name for p in serial.tools.list_ports.comports()]
PortNames == [i \in 1..NumPorts |-> i]

\* _Register: name |-> size in bytes.
RegisterSize ==
    [ OPERATING_MODE |-> 1, VELCOITY_LIMIT |-> 4, PROFILE_VELCOITY |-> 4,
      CONTROLLER_STATE |-> 1, TORQUE_ENABLE |-> 1, GOAL_VELOCITY |-> 4,
      GOAL_POSITION |-> 4, PRESENT_CURRENT |-> 2, PRESENT_VELOCITY |-> 4,
      PRESENT_POSITION |-> 4, PRESENT_INPUT_VOLTAGE |-> 2,
      PRESENT_INVERTER_TEMPERATURE |-> 1, PRESENT_MOTOR_TEMPERATURE |-> 1 ]

TelemetryRegisters ==
    { "PRESENT_POSITION", "PRESENT_VELOCITY", "PRESENT_CURRENT",
      "PRESENT_INPUT_VOLTAGE", "PRESENT_INVERTER_TEMPERATURE",
      "PRESENT_MOTOR_TEMPERATURE" }

(* --------------------------- pure functions ---------------------------- *)

Abs(x) == IF x < 0 THEN -x ELSE x

\* Python's round() of the rational p/q (q > 0): to the nearest integer,
\* a tie to the even one.
Round(p, q) ==
    LET f == p \div q
        r == p % q
    IN  IF 2 * r < q THEN f
        ELSE IF 2 * r > q THEN f + 1
        ELSE IF f % 2 = 0 THEN f ELSE f + 1

\* round(degrees * __PULSES_PER_DEGREE), degrees = d[1]/d[2],
\* __PULSES_PER_DEGREE = 524288 / 360.
DegreesToPulses(d) == Round(d[1] * 524288, d[2] * 360)

\* round(degrees_per_second * __CRPMS_PER_DEGREES_PER_SECOND),
\* degrees_per_second = v[1]/v[2], __CRPMS_PER_DEGREES_PER_SECOND = 1 / 0.06.
DpsToCrpm(v) == Round(v[1] * 100, v[2] * 6)

\* goal_velocity / __CRPMS_PER_DEGREES_PER_SECOND as the fraction <<num, den>>.
CrpmToDps(crpm) == <<crpm * 6, 100>>

\* goal_position / __PULSES_PER_DEGREE as the fraction <<num, den>>.
PulsesToDegrees(pulses) == <<pulses * 360, 524288>>

\* Equality of two fractions with positive denominators.
SameFraction(a, b) == a[1] * b[2] = b[1] * a[2]

\* Raw register values are unsigned and up to 32 bits wide: they are held
\* as two 16-bit words <<high, low>>.
\* A __read that takes every register to be 32 bits wide.
MaxUnsignedPlusOne_Always32(size) == <<WORD, 0>>

\* 1 << (register.size * 8)
MaxUnsignedPlusOne(size) ==
    IF size * 8 < 16 THEN <<0, 2 ^ (size * 8)>> ELSE <<2 ^ (size * 8 - 16), 0>>

\* max_unsigned_plus_one // 2
HalfOf(m) ==
    IF m[1] = 0 THEN <<0, m[2] \div 2>>
    ELSE IF m[1] = 1 THEN <<0, WORD \div 2>>
    ELSE <<m[1] \div 2, 0>>

RawLess(a, b) == a[1] < b[1] \/ (a[1] = b[1] /\ a[2] < b[2])

\* value if value < (max_unsigned_plus_one // 2) else value - max_unsigned_plus_one
ToSigned(size, raw) ==
    LET m == MaxUnsignedPlusOne(size)
    IN  IF RawLess(raw, HalfOf(m))
        THEN raw[1] * WORD + raw[2]
        ELSE (raw[1] - m[1]) * WORD + (raw[2] - m[2])

\* What the device sends for the signed quantity v of a register of `size`
\* bytes, and what the transport stores of a written value: its two's
\* complement, as raw words.
TwosComplement(size, v) ==
    IF size = 4 THEN <<(v \div WORD) % WORD, v % WORD>>
    ELSE <<0, v % (2 ^ (size * 8))>>

\* A __check_response that looks at the communication result only.
CheckResponse_ResultOnly(result, error) == result = COMM_SUCCESS

\* __check_response: no exception is raised.
CheckResponse(result, error) == result = COMM_SUCCESS /\ error = 0

\* What one transaction can come back with: <<result, error>>.
Responses ==
    { <<COMM_SUCCESS, 0>>, <<COMM_RX_TIMEOUT, 0>>, <<COMM_SUCCESS, ERRNUM_DATA_RANGE>> }

(* ------------------------------ inputs --------------------------------- *)

\* degrees arguments of set_position, as fractions <<num, den>>:
\* 2.5 pulses and -1.5 pulses (both ties).
DegreeInputs == { <<225, 131072>>, <<-135, 131072>> }

\* degrees_per_second arguments of set_velocity, as fractions: 0.03 (a tie:
\* 0.5 crpm), 0.1 (1.67 crpm), -0.1.
DpsInputs == { <<3, 100>>, <<1, 10>>, <<-1, 10>> }

NONE == <<0, 0>>

\* No raw value is fixed for the transport's answer to the next read.
NoRaw == <<-1, -1>>

\* The words raw values are sampled at: the ends of a word, its middle, and
\* the ends and the middle of a byte.
WordSamples == {0, 1, 127, 128, 255, 256, 32767, 32768, 65534, 65535}

\* The raw values value, _, _ = read(...) can return for a register of
\* `size` bytes, 0 .. 2^(8 * size) - 1: all of them for one byte, samples
\* for two and four.
RawInputs(size) ==
    IF size = 1 THEN { <<0, v>> : v \in 0..255 }
    ELSE IF size = 2 THEN { <<0, v>> : v \in WordSamples }
    ELSE { <<h, l>> : h \in WordSamples, l \in WordSamples }

\* degrees_per_second arguments of set_position: None, 0 and -0.1.
LimitInputs == { NONE, <<0, 1>>, <<-1, 10>> }

\* not degrees_per_second: None and 0 are both falsy.
Falsy(v) == v = NONE \/ v[1] = 0

(* ------------------------------- state --------------------------------- *)

VARIABLES
    pc,              \* where the driver's thread is; "idle": in no call,
                     \* "done": a call has just ended
    stack,           \* the places the methods it is inside return to
    loc,             \* the arguments and locals of the call
    now,             \* time.perf_counter(), in ticks
    timeout,         \* _retry.wrapper: timeout
    fails,           \* _retry.wrapper: failed attempts of this transaction
    sunk,            \* _retry.wrapper: its _debug_print calls that reached the callback
    faults,          \* failed attempts the transport has produced in this call
    sink,            \* invocations of the debug callback in this call
    log,             \* the transport calls of this call, in order
    last,            \* how the last transaction ended, and at which entry of the log
    result,          \* how the last call ended
    handle,          \* the port of the DynamixelY object in use, 0: none
    open,            \* the ports that are open
    device,          \* registers of the device on the port in use
    debug_callback,  \* _debug_callback is not None
    probed           \* the ports scan() has tried, in order, and how each went

vars ==
    << pc, stack, loc, now, timeout, fails, sunk, faults, sink, log, last,
       result, handle, open, device, debug_callback, probed >>

NoLast ==
    [ outcome |-> "none", fails |-> 0, sunk |-> 0, exception |-> 0, at |-> 0,
      late |-> FALSE ]

NoResult == [status |-> "none", value |-> NONE]

NoLoc ==
    [ op |-> "none", port |-> 0, index |-> 0, degrees |-> NONE, dps |-> NONE,
      block |-> FALSE, mode |-> 0, goal |-> 0, velocity_increased |-> FALSE,
      present |-> 0, polls |-> 0, reg |-> "none", pv |-> 0, torque_was |-> 0,
      ping |-> NONE, raw |-> NoRaw, lap |-> 0 ]

\* The devices a port can have: attached or not, in either mode, torque on
\* or off.
NoDevice == [attached |-> FALSE, operating_mode |-> POSITION, torque_enable |-> 0]

AttachedDevices ==
    [attached : {TRUE}, operating_mode : {VELOCITY, POSITION}, torque_enable : {0, 1}]

Devices == {NoDevice} \cup AttachedDevices

\* The module as imported, no object constructed: _debug_callback = None.
Init ==
    /\ pc = "idle"
    /\ stack = <<>>
    /\ loc = NoLoc
    /\ now = 0
    /\ timeout = 0
    /\ fails = 0
    /\ sunk = 0
    /\ faults = 0
    /\ sink = 0
    /\ log = <<>>
    /\ last = NoLast
    /\ result = NoResult
    /\ handle = 0
    /\ open = {}
    /\ device = NoDevice
    /\ debug_callback = FALSE
    /\ probed = <<>>

(* --------------------------- the transport ----------------------------- *)

\* The device after a write of val to reg has reached it.
DeviceWrite(dev, reg, val) ==
    IF reg = "TORQUE_ENABLE"
    THEN [dev EXCEPT !.torque_enable = TwosComplement(RegisterSize[reg], val)[2]]
    ELSE IF reg = "OPERATING_MODE"
    THEN [dev EXCEPT !.operating_mode = TwosComplement(RegisterSize[reg], val)[2]]
    ELSE dev

\* The signed quantities a read of reg can find in the device.
DeviceValues(reg) ==
    IF reg = "OPERATING_MODE" THEN {device.operating_mode}
    ELSE IF reg = "TORQUE_ENABLE" THEN {device.torque_enable}
    ELSE IF reg = "CONTROLLER_STATE"
    THEN {IDLE_STATE, PROCESSING_TORQUE_ON, PROCESSING_TORQUE_OFF}
    ELSE IF reg = "VELCOITY_LIMIT" THEN {VELOCITY_LIMIT_VALUE}
    ELSE IF reg \in {"PRESENT_POSITION", "PRESENT_VELOCITY"}
    THEN {loc.goal - 1, loc.goal, loc.goal + 1}
    ELSE {0, 1, -1}

\* The raw values the transport returns for a read of reg: the one fixed for
\* this read when one is, else what the device holds.
RawValues(reg) ==
    IF loc.raw # NoRaw THEN {loc.raw}
    ELSE { TwosComplement(RegisterSize[reg], v) : v \in DeviceValues(reg) }

(* ------------------------------ _retry --------------------------------- *)

\* The upsets of the call so far.
Upsets == faults + loc.polls

\* A wrapper that raises only once the deadline is behind it.
Expired_Strict(t, deadline) == t > deadline

\* time.perf_counter() >= timeout
Expired(t, deadline) == t >= deadline

\* A wrapper that keeps the first exception and raises that one.
Reraised_First(this, first) == first

\* `raise` in the except clause: the exception being handled, which is the
\* one of this attempt, not the one of the first.
Reraised(this, first) == this

\* A _debug_print that calls the callback without looking whether one is set.
DebugPrinted_Always == IF TRUE THEN 1 ELSE 0

\* _debug_print(message): the callback is called when there is one.
DebugPrinted == IF debug_callback THEN 1 ELSE 0

Entry(kind, reg, v, ok) == [k |-> kind, reg |-> reg, v |-> v, ok |-> ok]

\* A wrapper whose deadline and clock outlive the transaction: one budget
\* for all the transactions of a call.
TxnOk_SharedBudget(kind, reg, v) ==
    /\ faults' = faults
    /\ log' = Append(log, Entry(kind, reg, v, TRUE))
    /\ last' = [ outcome |-> "ok", fails |-> fails, sunk |-> sunk, exception |-> 0,
                 at |-> Len(log) + 1, late |-> FALSE ]
    /\ UNCHANGED <<now, timeout, fails, sunk, debug_callback>>

\* timeout = time.perf_counter() + 1, set when the wrapper is entered.
Deadline == IF fails = 0 THEN now + RetryBudget * TicksPerSecond ELSE timeout

\* The wrapper returns func's result, however long the attempt has taken
\* (dt): the transaction is over. Of the time, what is kept is whether the
\* attempt ended at or after the deadline.
TxnOk(kind, reg, v) ==
    /\ faults' = faults
    /\ log' = Append(log, Entry(kind, reg, v, TRUE))
    /\ \E dt \in {0, 1} :
        last' = [ outcome |-> "ok", fails |-> fails, sunk |-> sunk, exception |-> 0,
                  at |-> Len(log) + 1, late |-> now + dt >= Deadline ]
    /\ now' = 0
    /\ timeout' = 0
    /\ fails' = 0
    /\ sunk' = 0
    /\ UNCHANGED debug_callback

\* A scan() that does not catch the exception of a port that fails.
Unwind_NotCaught ==
    /\ stack' = <<>>
    /\ pc' = "done"
    /\ result' = [ status |-> IF loc.op = "scan" THEN "not_found" ELSE "raised",
                   value |-> NONE ]
    /\ probed' = IF loc.op = "scan"
                 THEN [probed EXCEPT ![Len(probed)].outcome = "failed"]
                 ELSE probed
    /\ UNCHANGED loc

\* An exception leaves the public method: scan() catches it and goes on to
\* the next port, any other caller gets it.
Unwind ==
    /\ stack' = <<>>
    /\ IF loc.op = "scan"
       THEN /\ pc' = "scan_loop"
            /\ loc' = [loc EXCEPT !.index = @ + 1]
            /\ probed' = [probed EXCEPT ![Len(probed)].outcome = "failed"]
            /\ UNCHANGED result
       ELSE /\ pc' = "done"
            /\ result' = [status |-> "raised", value |-> NONE]
            /\ UNCHANGED <<loc, probed>>

\* func raised: past the deadline the exception propagates, before it the
\* exception is printed and func is called again.
TxnFail(kind, reg, val) ==
    /\ Upsets < MaxUpsets
    /\ \E dt \in {0, 1}, resp \in Responses,
          applied \in (IF kind = "w" THEN BOOLEAN ELSE {FALSE}) :
        LET deadline == IF fails = 0 THEN now + RetryBudget * TicksPerSecond
                        ELSE timeout
            t == now + dt
        IN  /\ ~CheckResponse(resp[1], resp[2])
            /\ faults' = faults + 1
            /\ log' = Append(log, Entry(kind, reg, val, FALSE))
            /\ device' = IF applied THEN DeviceWrite(device, reg, val) ELSE device
            /\ IF Expired(t, deadline)
               THEN /\ last' = [ outcome |-> "raised", fails |-> fails + 1,
                                 sunk |-> sunk,
                                 exception |-> Reraised(fails + 1, 1),
                                 at |-> Len(log) + 1, late |-> t >= deadline ]
                    /\ now' = 0
                    /\ timeout' = 0
                    /\ fails' = 0
                    /\ sunk' = 0
                    /\ Unwind
                    /\ UNCHANGED sink
               ELSE /\ sunk' = sunk + DebugPrinted
                    /\ sink' = sink + DebugPrinted
                    /\ fails' = fails + 1
                    /\ timeout' = deadline
                    /\ now' = t
                    /\ UNCHANGED <<pc, stack, loc, last, result, probed>>
    /\ UNCHANGED <<handle, open, debug_callback>>

\* A method returns: to its caller, or out of the public call.
Return(value) ==
    IF stack = <<>>
    THEN /\ pc' = "done"
         /\ stack' = <<>>
         /\ result' = [status |-> "ok", value |-> value]
         /\ handle' = IF loc.op = "init" THEN loc.port ELSE handle
    ELSE /\ pc' = Head(stack)
         /\ stack' = Tail(stack)
         /\ UNCHANGED <<result, handle>>

\* Control goes on to `label` of the same method.
Goto(label) ==
    /\ pc' = label
    /\ UNCHANGED <<stack, result, handle>>

\* Control enters a method at `label`; the method returns to `back`.
Call(label, back) ==
    /\ pc' = label
    /\ stack' = <<back>> \o stack
    /\ UNCHANGED <<result, handle>>

(* ------------------- __torque_enable / __torque_disable ---------------- *)

\* self.__write(_TORQUE_ENABLE, 1), then the wait.
TorqueEnableWrite ==
    /\ pc = "te_write"
    /\ \/ /\ TxnOk("w", "TORQUE_ENABLE", 1)
          /\ device' = DeviceWrite(device, "TORQUE_ENABLE", 1)
          /\ Goto("wait_read")
          /\ UNCHANGED <<loc, sink, open, probed>>
       \/ TxnFail("w", "TORQUE_ENABLE", 1)

\* self.__write(_TORQUE_ENABLE, 0), then the wait.
TorqueDisableWrite ==
    /\ pc = "td_write"
    /\ \/ /\ TxnOk("w", "TORQUE_ENABLE", 0)
          /\ device' = DeviceWrite(device, "TORQUE_ENABLE", 0)
          /\ Goto("wait_read")
          /\ UNCHANGED <<loc, sink, open, probed>>
       \/ TxnFail("w", "TORQUE_ENABLE", 0)

\* A wait that looks for PROCESSING_TORQUE_ON only.
Processing_OnOnly(state) == state = PROCESSING_TORQUE_ON

\* The loop's condition: the state read is one of the two processing states.
Processing(state) == state \in {PROCESSING_TORQUE_ON, PROCESSING_TORQUE_OFF}

\* __wait_for_processing_torque: one read of _CONTROLLER_STATE.
WaitForProcessingTorque ==
    /\ pc = "wait_read"
    /\ \/ \E raw \in RawValues("CONTROLLER_STATE") :
            LET state == ToSigned(RegisterSize["CONTROLLER_STATE"], raw)
            IN  /\ TxnOk("r", "CONTROLLER_STATE", state)
                /\ IF Processing(state)
                   THEN /\ Upsets < MaxUpsets
                        /\ loc' = [loc EXCEPT !.polls = @ + 1]
                        /\ UNCHANGED <<pc, stack, result, handle>>
                   ELSE /\ Return(NONE)
                        /\ UNCHANGED loc
                /\ UNCHANGED <<sink, open, device, probed>>
       \/ TxnFail("r", "CONTROLLER_STATE", 0)

(* ------------------------ __set_operating_mode ------------------------- *)

\* A __set_operating_mode that writes the new mode without disabling torque.
SetOperatingModeReadMode_NoDisable ==
    /\ pc = "som_read_mode"
    /\ \/ \E raw \in RawValues("OPERATING_MODE") :
            LET value == ToSigned(RegisterSize["OPERATING_MODE"], raw)
            IN  /\ TxnOk("r", "OPERATING_MODE", value)
                /\ IF value # loc.mode
                   THEN Goto("som_write_mode")
                   ELSE Goto("som_read_torque")
                /\ UNCHANGED <<loc, sink, open, device, probed>>
       \/ TxnFail("r", "OPERATING_MODE", 0)

\* A __set_operating_mode that trusts the mode it found the first time: the
\* mode the object was constructed in is taken to be the mode asked for.
SetOperatingModeReadMode_Trusted ==
    /\ pc = "som_read_mode"
    /\ \/ \E raw \in RawValues("OPERATING_MODE") :
            LET value == ToSigned(RegisterSize["OPERATING_MODE"], raw)
            IN  /\ TxnOk("r", "OPERATING_MODE", value)
                /\ Goto("som_read_torque")
                /\ UNCHANGED <<loc, sink, open, device, probed>>
       \/ TxnFail("r", "OPERATING_MODE", 0)

\* if self.__read(_OPERATING_MODE) != mode.value: self.__torque_disable() ...
SetOperatingModeReadMode ==
    /\ pc = "som_read_mode"
    /\ \/ \E raw \in RawValues("OPERATING_MODE") :
            LET value == ToSigned(RegisterSize["OPERATING_MODE"], raw)
            IN  /\ TxnOk("r", "OPERATING_MODE", value)
                /\ IF value # loc.mode
                   THEN Call("td_write", "som_write_mode")
                   ELSE Goto("som_read_torque")
                /\ UNCHANGED <<loc, sink, open, device, probed>>
       \/ TxnFail("r", "OPERATING_MODE", 0)

\* A __set_operating_mode that disables torque once more after the mode write.
SetOperatingModeWriteMode_DisableAgain ==
    /\ pc = "som_write_mode"
    /\ \/ /\ TxnOk("w", "OPERATING_MODE", loc.mode)
          /\ device' = DeviceWrite(device, "OPERATING_MODE", loc.mode)
          /\ Call("td_write", "som_read_torque")
          /\ UNCHANGED <<loc, sink, open, probed>>
       \/ TxnFail("w", "OPERATING_MODE", loc.mode)

\* self.__write(_OPERATING_MODE, mode.value)
SetOperatingModeWriteMode ==
    /\ pc = "som_write_mode"
    /\ \/ /\ TxnOk("w", "OPERATING_MODE", loc.mode)
          /\ device' = DeviceWrite(device, "OPERATING_MODE", loc.mode)
          /\ Goto("som_read_torque")
          /\ UNCHANGED <<loc, sink, open, probed>>
       \/ TxnFail("w", "OPERATING_MODE", loc.mode)

\* A __set_operating_mode that trusts torque to be on when the mode was right.
SetOperatingModeReadTorque_NoEnable ==
    /\ pc = "som_read_torque"
    /\ \/ \E raw \in RawValues("TORQUE_ENABLE") :
            LET value == ToSigned(RegisterSize["TORQUE_ENABLE"], raw)
            IN  /\ TxnOk("r", "TORQUE_ENABLE", value)
                /\ IF value = 0 /\ \E i \in DOMAIN log : log[i].reg = "OPERATING_MODE" /\ log[i].k = "w"
                   THEN Goto("te_write")
                   ELSE Return(NONE)
                /\ UNCHANGED <<loc, sink, open, device, probed>>
       \/ TxnFail("r", "TORQUE_ENABLE", 0)

\* A __set_operating_mode that enables torque whatever the register reads.
SetOperatingModeReadTorque_AlwaysEnable ==
    /\ pc = "som_read_torque"
    /\ \/ \E raw \in RawValues("TORQUE_ENABLE") :
            LET value == ToSigned(RegisterSize["TORQUE_ENABLE"], raw)
            IN  /\ TxnOk("r", "TORQUE_ENABLE", value)
                /\ Goto("te_write")
                /\ UNCHANGED <<loc, sink, open, device, probed>>
       \/ TxnFail("r", "TORQUE_ENABLE", 0)

\* if self.__read(_TORQUE_ENABLE) == 0: self.__torque_enable()
SetOperatingModeReadTorque ==
    /\ pc = "som_read_torque"
    /\ \/ \E raw \in RawValues("TORQUE_ENABLE") :
            LET value == ToSigned(RegisterSize["TORQUE_ENABLE"], raw)
            IN  /\ TxnOk("r", "TORQUE_ENABLE", value)
                /\ IF value = 0
                   THEN Goto("te_write")
                   ELSE Return(NONE)
                /\ UNCHANGED <<loc, sink, open, device, probed>>
       \/ TxnFail("r", "TORQUE_ENABLE", 0)

(* ------------------------- public calls begin -------------------------- *)

\* A public call begins.
Begin ==
    /\ pc = "idle"
    /\ UNCHANGED << now, timeout, fails, sunk, faults, sink, log, last, result,
                    handle, open, device, debug_callback >>

\* The caller has the outcome of the call that ended: what the model has
\* recorded of that call is dropped.
Done ==
    /\ pc = "done"
    /\ pc' = "idle"
    /\ loc' = NoLoc
    /\ faults' = 0
    /\ sink' = 0
    /\ log' = <<>>
    /\ last' = NoLast
    /\ result' = NoResult
    /\ probed' = <<>>
    /\ UNCHANGED <<stack, now, timeout, fails, sunk, handle, open, device, debug_callback>>

\* round(abs(degrees_per_second) * __CRPMS_PER_DEGREES_PER_SECOND)
ProfileVelocity(v) == DpsToCrpm(<<Abs(v[1]), v[2]>>)

\* goal_position = round(degrees * __PULSES_PER_DEGREE)
GoalPosition(d) == DegreesToPulses(d)

\* goal_velocity = round(degrees_per_second * __CRPMS_PER_DEGREES_PER_SECOND)
GoalVelocity(v) == DpsToCrpm(v)

\* set_position(degrees, degrees_per_second, block) is called.
CallSetPosition ==
    /\ Begin
    /\ handle # 0
    /\ \E d \in DegreeInputs, v \in LimitInputs, b \in BOOLEAN :
        /\ loc' = [ NoLoc EXCEPT !.op = "set_position", !.port = handle,
                    !.degrees = d, !.dps = v, !.block = b,
                    !.mode = POSITION, !.goal = GoalPosition(d),
                    !.torque_was = device.torque_enable,
                    !.pv = IF Falsy(v) THEN 0 ELSE ProfileVelocity(v) ]
        /\ pc' = IF Falsy(v) THEN "sp_read_vl" ELSE "sp_write_pv"
    /\ UNCHANGED <<stack, probed>>

\* set_velocity(degrees_per_second, block) is called.
CallSetVelocity ==
    /\ Begin
    /\ handle # 0
    /\ \E v \in DpsInputs, b \in BOOLEAN :
        loc' = [ NoLoc EXCEPT !.op = "set_velocity", !.port = handle,
                 !.dps = v, !.block = b, !.mode = VELOCITY,
                 !.torque_was = device.torque_enable,
                 !.goal = GoalVelocity(v) ]
    /\ pc' = "som_read_mode"
    /\ stack' = <<"sv_goal">>
    /\ UNCHANGED probed

\* One of the telemetry getters is called.
CallGet ==
    /\ Begin
    /\ handle # 0
    /\ \E reg \in TelemetryRegisters :
        loc' = [NoLoc EXCEPT !.op = "get", !.port = handle, !.reg = reg]
    /\ pc' = "get_read"
    /\ UNCHANGED <<stack, probed>>

\* DynamixelY(port_name) is called; the ports are alike to the driver, and
\* the caller's object is made on the first.
CallInit ==
    /\ Begin
    /\ handle = 0
    /\ loc' = [NoLoc EXCEPT !.op = "init", !.port = PortNames[1]]
    /\ pc' = "init_open"
    /\ UNCHANGED <<stack, probed>>

\* close() is called.
CallClose ==
    /\ Begin
    /\ handle # 0
    /\ loc' = [NoLoc EXCEPT !.op = "close", !.port = handle]
    /\ pc' = "td_write"
    /\ stack' = <<"close_port">>
    /\ UNCHANGED probed

\* scan() is called.
CallScan ==
    /\ Begin
    /\ handle = 0
    /\ loc' = [NoLoc EXCEPT !.op = "scan", !.index = 1]
    /\ pc' = "scan_loop"
    /\ UNCHANGED <<stack, probed>>

\* set_debug_callback(callback)
SetDebugCallback ==
    /\ pc = "idle"
    /\ debug_callback' = ~debug_callback
    /\ UNCHANGED << pc, stack, loc, now, timeout, fails, sunk, faults, sink, log,
                    last, result, handle, open, device, probed >>

\* Between two calls, something other than the driver (the device itself,
\* another tool on the bus) changes the mode or the torque of the device.
ExternalChange ==
    /\ pc = "idle"
    /\ handle # 0
    /\ device.attached
    /\ \E dev \in AttachedDevices :
        /\ dev # device
        /\ device' = dev
    /\ UNCHANGED << pc, stack, loc, now, timeout, fails, sunk, faults, sink, log,
                    last, result, handle, open, debug_callback, probed >>

(* ---------------------------- set_position ----------------------------- *)

\* self.__read(_VELCOITY_LIMIT), the argument of the write of line 128.
SetPositionReadLimit ==
    /\ pc = "sp_read_vl"
    /\ \/ \E raw \in RawValues("VELCOITY_LIMIT") :
            LET value == ToSigned(RegisterSize["VELCOITY_LIMIT"], raw)
            IN  /\ TxnOk("r", "VELCOITY_LIMIT", value)
                /\ Goto("sp_write_pv")
                /\ loc' = [loc EXCEPT !.pv = value]
                /\ UNCHANGED <<sink, open, device, probed>>
       \/ TxnFail("r", "VELCOITY_LIMIT", 0)

\* self.__write(_PROFILE_VELCOITY, ...), then self.__set_operating_mode(POSITION).
SetPositionWriteProfile ==
    /\ pc = "sp_write_pv"
    /\ \/ /\ TxnOk("w", "PROFILE_VELCOITY", loc.pv)
          /\ Call("som_read_mode", "sp_goal")
          /\ UNCHANGED <<loc, sink, open, device, probed>>
       \/ TxnFail("w", "PROFILE_VELCOITY", loc.pv)

\* self.__write(_GOAL_POSITION, goal_position); if not block: return degrees
SetPositionWriteGoal ==
    /\ pc = "sp_goal"
    /\ \/ /\ TxnOk("w", "GOAL_POSITION", loc.goal)
          /\ IF ~loc.block
             THEN Return(PulsesToDegrees(loc.goal))
             ELSE Goto("sp_poll")
          /\ UNCHANGED <<loc, sink, open, device, probed>>
       \/ TxnFail("w", "GOAL_POSITION", loc.goal)

\* A loop that ends within one pulse of the goal.
PositionReached_Within(present_position, goal_position) ==
    Abs(present_position - goal_position) <= 1

\* if present_position == goal_position: break
PositionReached(present_position, goal_position) == present_position = goal_position

\* One pass of the while loop of set_position.
SetPositionPoll ==
    /\ pc = "sp_poll"
    /\ \/ \E raw \in RawValues("PRESENT_POSITION") :
            LET present_position == ToSigned(RegisterSize["PRESENT_POSITION"], raw)
            IN  /\ TxnOk("r", "PRESENT_POSITION", present_position)
                /\ sink' = sink + DebugPrinted
                /\ IF PositionReached(present_position, loc.goal)
                   THEN /\ Return(PulsesToDegrees(loc.goal))
                        /\ loc' = [loc EXCEPT !.present = present_position]
                   ELSE /\ Upsets < MaxUpsets
                        /\ loc' = [ loc EXCEPT !.present = present_position,
                                               !.polls = @ + 1 ]
                        /\ UNCHANGED <<pc, stack, result, handle>>
                /\ UNCHANGED <<open, device, probed>>
       \/ TxnFail("r", "PRESENT_POSITION", 0)

(* ---------------------------- set_velocity ----------------------------- *)

\* A set_velocity that returns its argument.
RealizedVelocity_Requested(goal_velocity, requested) == requested

\* The value set_velocity returns: goal_velocity / __CRPMS_PER_DEGREES_PER_SECOND.
RealizedVelocity(goal_velocity, requested) == CrpmToDps(goal_velocity)

\* self.__write(_GOAL_VELOCITY, goal_velocity); if not block: return
SetVelocityWriteGoal ==
    /\ pc = "sv_goal"
    /\ \/ /\ TxnOk("w", "GOAL_VELOCITY", loc.goal)
          /\ IF ~loc.block
             THEN Return(RealizedVelocity(loc.goal, loc.dps))
             ELSE Goto("sv_pre")
          /\ UNCHANGED <<loc, sink, open, device, probed>>
       \/ TxnFail("w", "GOAL_VELOCITY", loc.goal)

\* A direction that counts a goal equal to the value read as an increase.
VelocityIncreased_OrEqual(goal_velocity, present_velocity) ==
    goal_velocity >= present_velocity

\* velocity_increased = goal_velocity > self.__read(_PRESENT_VELOCITY)
VelocityIncreased(goal_velocity, present_velocity) == goal_velocity > present_velocity

SetVelocityReadDirection ==
    /\ pc = "sv_pre"
    /\ \/ \E raw \in RawValues("PRESENT_VELOCITY") :
            LET value == ToSigned(RegisterSize["PRESENT_VELOCITY"], raw)
            IN  /\ TxnOk("r", "PRESENT_VELOCITY", value)
                /\ Goto("sv_poll")
                /\ loc' = [ loc EXCEPT
                              !.velocity_increased = VelocityIncreased(loc.goal, value) ]
                /\ UNCHANGED <<sink, open, device, probed>>
       \/ TxnFail("r", "PRESENT_VELOCITY", 0)

\* The two break conditions of the while loop of set_velocity.
VelocityReached(velocity_increased, present_velocity, goal_velocity) ==
    IF velocity_increased
    THEN present_velocity >= goal_velocity
    ELSE present_velocity <= goal_velocity

\* One pass of the while loop of set_velocity.
SetVelocityPoll ==
    /\ pc = "sv_poll"
    /\ \/ \E raw \in RawValues("PRESENT_VELOCITY") :
            LET present_velocity == ToSigned(RegisterSize["PRESENT_VELOCITY"], raw)
            IN  /\ TxnOk("r", "PRESENT_VELOCITY", present_velocity)
                /\ sink' = sink + DebugPrinted
                /\ IF VelocityReached(loc.velocity_increased, present_velocity, loc.goal)
                   THEN /\ Return(RealizedVelocity(loc.goal, loc.dps))
                        /\ loc' = [loc EXCEPT !.present = present_velocity]
                   ELSE /\ Upsets < MaxUpsets
                        /\ loc' = [ loc EXCEPT !.present = present_velocity,
                                               !.polls = @ + 1 ]
                        /\ UNCHANGED <<pc, stack, result, handle>>
                /\ UNCHANGED <<open, device, probed>>
       \/ TxnFail("r", "PRESENT_VELOCITY", 0)

\* One pass of the while loop of set_velocity, as SetVelocityPoll, but with
\* nothing kept of a pass that does not end the loop (no entry in the log,
\* and of the count of the passes only whether it is odd): the loop can go
\* round for ever, as it can in the code.
SetVelocityPollForEver ==
    /\ pc = "sv_poll"
    /\ \/ \E raw \in RawValues("PRESENT_VELOCITY") :
            LET present_velocity == ToSigned(RegisterSize["PRESENT_VELOCITY"], raw)
            IN  /\ sink' = sink + DebugPrinted
                /\ IF VelocityReached(loc.velocity_increased, present_velocity, loc.goal)
                   THEN /\ TxnOk("r", "PRESENT_VELOCITY", present_velocity)
                        /\ loc' = [loc EXCEPT !.present = present_velocity]
                        /\ Return(RealizedVelocity(loc.goal, loc.dps))
                   ELSE /\ loc' = [ loc EXCEPT !.present = present_velocity,
                                               !.lap = 1 - @ ]
                        /\ now' = 0
                        /\ timeout' = 0
                        /\ fails' = 0
                        /\ sunk' = 0
                        /\ UNCHANGED << pc, stack, result, handle, faults, log, last,
                                        debug_callback >>
                /\ UNCHANGED <<open, device, probed>>
       \/ TxnFail("r", "PRESENT_VELOCITY", 0)

(* ------------------------------ getters -------------------------------- *)

\* What a getter makes of the value read: the quotient it returns, as
\* <<value, divisor>> with the divisor a fraction (__PULSES_PER_DEGREE is
\* 524288 / 360, __CRPMS_PER_DEGREES_PER_SECOND is 1 / 0.06); the value is
\* any 32-bit number and is left as read.
Converted(reg, value) ==
    IF reg = "PRESENT_POSITION" THEN <<value, <<524288, 360>>>>
    ELSE IF reg = "PRESENT_VELOCITY" THEN <<value, <<100, 6>>>>
    ELSE IF reg = "PRESENT_CURRENT" THEN <<value, <<100, 1>>>>
    ELSE IF reg = "PRESENT_INPUT_VOLTAGE" THEN <<value, <<10, 1>>>>
    ELSE <<value, <<1, 1>>>>

\* get_position, get_velocity, get_current, get_voltage, get_*_temperature.
Get ==
    /\ pc = "get_read"
    /\ \/ \E raw \in RawValues(loc.reg) :
            LET value == ToSigned(RegisterSize[loc.reg], raw)
            IN  /\ TxnOk("r", loc.reg, value)
                /\ Return(Converted(loc.reg, value))
                /\ UNCHANGED <<loc, sink, open, device, probed>>
       \/ TxnFail("r", loc.reg, 0)

(* --------------------------- __init__, close --------------------------- *)

\* A step that is no register transaction leaves the wrapper's state alone.
NoTxn == UNCHANGED <<now, timeout, fails, sunk, faults, sink, last, debug_callback>>

\* if not self.__port.openPort(): raise Exception("Unable to open port")
InitOpenPort ==
    /\ pc = "init_open"
    /\ NoTxn
    /\ \/ /\ log' = Append(log, Entry("port", "openPort", loc.port, TRUE))
          /\ open' = open \cup {loc.port}
          /\ \E dev \in Devices : device' = dev
          /\ Goto("init_baud")
          /\ UNCHANGED <<loc, probed>>
       \/ /\ log' = Append(log, Entry("port", "openPort", loc.port, FALSE))
          /\ Unwind
          /\ UNCHANGED <<handle, open, device>>

\* if not self.__port.setBaudRate(1_000_000): raise Exception("Unable to set baud rate")
InitSetBaudRate ==
    /\ pc = "init_baud"
    /\ NoTxn
    /\ \/ /\ log' = Append(log, Entry("port", "setBaudRate", loc.port, TRUE))
          /\ Goto("init_ping")
          /\ UNCHANGED <<loc, open, device, probed>>
       \/ /\ log' = Append(log, Entry("port", "setBaudRate", loc.port, FALSE))
          /\ Unwind
          /\ UNCHANGED <<handle, open, device>>

\* What a ping can come back with: anything when a device is there, no
\* answer when none is.
PingResponses == IF device.attached THEN Responses ELSE {<<COMM_RX_TIMEOUT, 0>>}

\* _, result, error = self.__packet.ping(...); self.__check_response(...);
\* then self.__torque_enable()
InitPing ==
    /\ pc = "init_ping"
    /\ NoTxn
    /\ \E resp \in PingResponses :
        \/ /\ CheckResponse(resp[1], resp[2])
           /\ log' = Append(log, Entry("port", "ping", loc.port, TRUE))
           /\ loc' = [loc EXCEPT !.ping = resp]
           /\ Goto("te_write")
           /\ UNCHANGED <<open, device, probed>>
        \/ /\ ~CheckResponse(resp[1], resp[2])
           /\ log' = Append(log, Entry("port", "ping", loc.port, FALSE))
           /\ Unwind
           /\ UNCHANGED <<handle, open, device>>

\* self.__port.closePort(), the last statement of close(); in scan() the
\* `return port_name` that follows.
ClosePort ==
    /\ pc = "close_port"
    /\ NoTxn
    /\ log' = Append(log, Entry("port", "closePort", loc.port, TRUE))
    /\ open' = open \ {loc.port}
    /\ pc' = "done"
    /\ stack' = <<>>
    /\ result' = [ status |-> "ok",
                   value |-> IF loc.op = "scan" THEN <<loc.port, 1>> ELSE NONE ]
    /\ handle' = 0
    /\ probed' = IF loc.op = "scan"
                 THEN [probed EXCEPT ![Len(probed)].outcome = "returned"]
                 ELSE probed
    /\ UNCHANGED <<loc, device>>

(* -------------------------------- scan --------------------------------- *)

\* for port_name in port_names: try: DynamixelY(port_name).close() ...
\* and, the list exhausted, raise Exception("DYNAMIXEL-Y not found")
ScanLoop ==
    /\ pc = "scan_loop"
    /\ UNCHANGED <<now, timeout, fails, sunk, sink, last, debug_callback>>
    /\ \/ /\ loc.index <= Len(PortNames)
          /\ loc' = [ loc EXCEPT !.port = PortNames[loc.index], !.polls = 0,
                                 !.ping = NONE ]
          /\ probed' = Append(probed, [ port |-> PortNames[loc.index],
                                         outcome |-> "trying" ])
          /\ pc' = "init_open"
          /\ stack' = <<"td_write", "close_port">>
          /\ log' = <<>>
          /\ faults' = 0
          /\ UNCHANGED <<result, handle, open, device>>
       \/ /\ loc.index > Len(PortNames)
          /\ pc' = "done"
          /\ result' = [status |-> "not_found", value |-> NONE]
          /\ UNCHANGED <<stack, loc, faults, log, handle, open, device, probed>>

(* ------------------------------- Next ---------------------------------- *)

\* The driver in the hands of a caller that makes one object and uses it.
Next ==
    \/ Done
    \/ CallInit
    \/ CallClose
    \/ CallSetPosition
    \/ CallSetVelocity
    \/ CallGet
    \/ SetDebugCallback
    \/ ExternalChange
    \/ InitOpenPort
    \/ InitSetBaudRate
    \/ InitPing
    \/ ClosePort
    \/ TorqueEnableWrite
    \/ TorqueDisableWrite
    \/ WaitForProcessingTorque
    \/ SetOperatingModeReadMode
    \/ SetOperatingModeWriteMode
    \/ SetOperatingModeReadTorque
    \/ SetPositionReadLimit
    \/ SetPositionWriteProfile
    \/ SetPositionWriteGoal
    \/ SetPositionPoll
    \/ SetVelocityWriteGoal
    \/ SetVelocityReadDirection
    \/ SetVelocityPoll
    \/ Get

Spec == Init /\ [][Next]_vars

\* scan(), called again and again.
ScanNext ==
    \/ Done
    \/ CallScan
    \/ ScanLoop
    \/ InitOpenPort
    \/ InitSetBaudRate
    \/ InitPing
    \/ TorqueEnableWrite
    \/ TorqueDisableWrite
    \/ WaitForProcessingTorque
    \/ ClosePort

ScanSpec == Init /\ [][ScanNext]_vars

\* An object in use, in no call: the constructor has returned, and the mode
\* and the torque of the device are whatever they have been set to since.
LiveInit ==
    /\ pc = "idle"
    /\ stack = <<>>
    /\ loc = NoLoc
    /\ now = 0
    /\ timeout = 0
    /\ fails = 0
    /\ sunk = 0
    /\ faults = 0
    /\ sink = 0
    /\ log = <<>>
    /\ last = NoLast
    /\ result = NoResult
    /\ handle = PortNames[1]
    /\ open = {PortNames[1]}
    /\ device \in AttachedDevices
    /\ debug_callback = FALSE
    /\ probed = <<>>

\* set_velocity, called again and again.
LiveNext ==
    \/ Done
    \/ CallSetVelocity
    \/ TorqueEnableWrite
    \/ TorqueDisableWrite
    \/ WaitForProcessingTorque
    \/ SetOperatingModeReadMode
    \/ SetOperatingModeWriteMode
    \/ SetOperatingModeReadTorque
    \/ SetVelocityWriteGoal
    \/ SetVelocityReadDirection
    \/ SetVelocityPollForEver

\* A pass of the polling loop in which the device, driven up to a goal above
\* the velocity of the direction read, is found at or above that goal.
CrossedUpwards ==
    /\ SetVelocityPollForEver
    /\ loc.velocity_increased
    /\ loc'.present >= loc.goal

\* The thread of the driver goes on as long as it has a step to take. The
\* transport fails MaxUpsets times at most in a call, so every transaction
\* succeeds in the end or raises. The device's velocity is read within one
\* unit of the goal (DeviceValues), and where the direction read found it
\* below the goal it is found at or above the goal at some later poll.
LiveSpec ==
    /\ LiveInit
    /\ [][LiveNext]_vars
    /\ WF_vars(LiveNext)
    /\ SF_vars(CrossedUpwards)

\* An object in use, about to read the register loc.reg in one of the
\* getters, the transport about to answer the raw value loc.raw.
ReadInit ==
    /\ pc = "get_read"
    /\ stack = <<>>
    /\ \E reg \in TelemetryRegisters :
        \E raw \in RawInputs(RegisterSize[reg]) :
            loc = [ NoLoc EXCEPT !.op = "get", !.port = PortNames[1],
                                 !.reg = reg, !.raw = raw ]
    /\ now = 0
    /\ timeout = 0
    /\ fails = 0
    /\ sunk = 0
    /\ faults = 0
    /\ sink = 0
    /\ log = <<>>
    /\ last = NoLast
    /\ result = NoResult
    /\ handle = PortNames[1]
    /\ open = {PortNames[1]}
    /\ device \in AttachedDevices
    /\ debug_callback = FALSE
    /\ probed = <<>>

\* __read, with its retries, on every raw value.
ReadNext ==
    \/ Get
    \/ Done

ReadSpec == ReadInit /\ [][ReadNext]_vars

(* ----------------------------- properties ------------------------------ *)

\* The transport calls of the log that are attempts to write reg.
WritesOf(reg) == { i \in DOMAIN log : log[i].k = "w" /\ log[i].reg = reg }

\* The transactions of the log that read reg and succeeded.
ReadsOf(reg) == { i \in DOMAIN log : log[i].k = "r" /\ log[i].reg = reg /\ log[i].ok }

\* A completed settle wait: a read of the controller state that found
\* neither PROCESSING_TORQUE_ON (4) nor PROCESSING_TORQUE_OFF (6).
Settled(i) ==
    /\ log[i].k = "r"
    /\ log[i].reg = "CONTROLLER_STATE"
    /\ log[i].ok
    /\ log[i].v \notin {4, 6}

\* Before the transport call i of this call: a torque-disable write that
\* succeeded, then a completed settle wait, and no torque-enable write since.
TorqueDisabledBefore(i) ==
    \E j \in 1..(i - 1) :
        /\ log[j] = Entry("w", "TORQUE_ENABLE", 0, TRUE)
        /\ \E k \in (j + 1)..(i - 1) : Settled(k)
        /\ \A m \in (j + 1)..(i - 1) :
            ~(log[m].k = "w" /\ log[m].reg = "TORQUE_ENABLE" /\ log[m].v = 1)

\* C1: every write to OPERATING_MODE, a failed attempt included, is preceded
\* in the same call by a successful TORQUE_ENABLE=0 write and a completed
\* settle wait with no TORQUE_ENABLE=1 write in between, and no step of the
\* driver changes the device's operating mode while its torque is enabled.
C1_ModeChangeSafety ==
    /\ [](\A i \in WritesOf("OPERATING_MODE") : TorqueDisabledBefore(i))
    /\ [][ (/\ pc \notin {"idle", "init_open"}
            /\ device'.operating_mode # device.operating_mode)
           => device.torque_enable = 0 ]_vars

\* A call has changed the operating mode of the device.
C1_Witness ==
    /\ pc = "done"
    /\ result.status = "ok"
    /\ \E i \in WritesOf("OPERATING_MODE") : log[i].ok
    /\ loc.torque_was = 1

\* C2: when set_position is about to write GOAL_POSITION, or set_velocity
\* GOAL_VELOCITY, and at every attempt of that write, the torque of the
\* device is enabled.
C2_TorqueOnAtGoalWrite ==
    /\ (pc \in {"sp_goal", "sv_goal"} => device.torque_enable = 1)
    /\ \A i \in WritesOf("GOAL_POSITION") \cup WritesOf("GOAL_VELOCITY") :
        \/ \E j \in 1..(i - 1) :
            /\ log[j] = Entry("w", "TORQUE_ENABLE", 1, TRUE)
            /\ \A m \in (j + 1)..(i - 1) : log[m].k # "w" \/ log[m].reg # "TORQUE_ENABLE"
        \/ /\ \E j \in 1..(i - 1) : log[j].reg = "TORQUE_ENABLE" /\ log[j].k = "r"
                                     /\ log[j].ok /\ log[j].v # 0
           /\ \A m \in 1..(i - 1) : log[m].k # "w" \/ log[m].reg # "TORQUE_ENABLE"

\* The goal is written in a call that found the mode right and torque off.
C2_Witness ==
    /\ pc = "done"
    /\ result.status = "ok"
    /\ loc.torque_was = 0
    /\ WritesOf("OPERATING_MODE") = {}
    /\ \E i \in WritesOf("GOAL_POSITION") \cup WritesOf("GOAL_VELOCITY") : log[i].ok

\* The transport calls of __set_operating_mode, which begins with the
\* call's first read of OPERATING_MODE.
SomLog ==
    LET starts == { i \in DOMAIN log : log[i].reg = "OPERATING_MODE" /\ log[i].k = "r" }
    IN  IF starts = {} THEN <<>>
        ELSE SubSeq(log, CHOOSE i \in starts : \A j \in starts : i <= j, Len(log))

\* __set_operating_mode has just returned: the goal write comes next and
\* has not been attempted.
SomReturned ==
    /\ pc \in {"sp_goal", "sv_goal"}
    /\ WritesOf("GOAL_POSITION") \cup WritesOf("GOAL_VELOCITY") = {}

\* What __set_operating_mode read: the operating mode, the torque enable.
SomModeRead == { SomLog[i].v : i \in { j \in DOMAIN SomLog :
                    SomLog[j].reg = "OPERATING_MODE" /\ SomLog[j].ok } }

SomTorqueRead == { SomLog[i].v : i \in { j \in DOMAIN SomLog :
                     SomLog[j].reg = "TORQUE_ENABLE" /\ SomLog[j].k = "r" /\ SomLog[j].ok } }

IsWrite(e) == e.k = "w"

\* C3: when the mode read is the mode asked for and the torque enable read
\* is not 0, __set_operating_mode issues no write: its transport calls are
\* reads of OPERATING_MODE and TORQUE_ENABLE, one successful read of each.
C3_NoOpWhenNothingToChange ==
    (SomReturned /\ SomModeRead = {loc.mode} /\ 0 \notin SomTorqueRead)
    => /\ SelectSeq(SomLog, IsWrite) = <<>>
       /\ \A i \in DOMAIN SomLog :
            SomLog[i].k = "r" /\ SomLog[i].reg \in {"OPERATING_MODE", "TORQUE_ENABLE"}
       /\ Cardinality({ i \in DOMAIN SomLog : SomLog[i].ok }) = 2

\* __set_operating_mode has returned from a device in the right mode with
\* torque on.
C3_Witness ==
    /\ SomReturned
    /\ SomModeRead = {loc.mode}
    /\ SomTorqueRead = {1}
    /\ loc.op = "set_velocity"
    /\ Len(log) = 2

\* C4: with no failed attempt, when the mode read differs from the mode
\* asked for, the writes of __set_operating_mode are exactly TORQUE_ENABLE=0,
\* OPERATING_MODE=mode, TORQUE_ENABLE=1 in this order, each torque write
\* followed by its settle poll, the call ending with the completed settle
\* wait of the torque enable.
C4_ModeChangeSequence ==
    (SomReturned /\ faults = 0 /\ SomModeRead # {loc.mode})
    => /\ SelectSeq(SomLog, IsWrite) =
            << Entry("w", "TORQUE_ENABLE", 0, TRUE),
               Entry("w", "OPERATING_MODE", loc.mode, TRUE),
               Entry("w", "TORQUE_ENABLE", 1, TRUE) >>
       /\ \A i \in DOMAIN SomLog :
            (SomLog[i].k = "w" /\ SomLog[i].reg = "TORQUE_ENABLE")
            => /\ i < Len(SomLog)
               /\ SomLog[i + 1].k = "r"
               /\ SomLog[i + 1].reg = "CONTROLLER_STATE"
       /\ SomLog[Len(SomLog)].reg = "CONTROLLER_STATE"
       /\ SomLog[Len(SomLog)].v \notin {4, 6}
       /\ SomLog[1].reg = "OPERATING_MODE"
       /\ SomLog[2] = Entry("w", "TORQUE_ENABLE", 0, TRUE)

\* The mode was changed on a device whose torque was off when the call began.
C4_Witness ==
    /\ SomReturned
    /\ faults = 0
    /\ SomModeRead # {loc.mode}
    /\ loc.torque_was = 0
    /\ loc.polls > 0

\* C5: a transaction that failed twice and then succeeded has called the
\* debug callback exactly twice and ends with the successful attempt; a
\* transaction that ends by raising raises the exception of its last attempt,
\* which ends the call, and has called the callback for every failure but
\* that last one.
C5_RetryOutcome ==
    /\ (last.outcome = "ok" /\ last.fails = 2)
       => /\ last.sunk = IF debug_callback THEN 2 ELSE 0
          /\ log[last.at].ok
          /\ \A i \in (last.at - 2)..(last.at - 1) :
                /\ ~log[i].ok
                /\ log[i].k = log[last.at].k
                /\ log[i].reg = log[last.at].reg
    /\ last.outcome = "raised"
       => /\ last.exception = last.fails
          /\ last.sunk = IF debug_callback THEN last.fails - 1 ELSE 0
          /\ ~log[last.at].ok
          /\ last.at = Len(log)
          /\ pc = "done"
          /\ result.status = "raised"

\* A transaction has failed twice and then succeeded, with a callback set.
C5_Witness ==
    /\ last.outcome = "ok"
    /\ last.fails = 2
    /\ debug_callback
    /\ last.sunk = 2

\* A transaction has raised at its second failure, with a callback set.
C5_WitnessRaised ==
    /\ last.outcome = "raised"
    /\ last.fails = 2
    /\ debug_callback
    /\ last.sunk = 1

\* C6: when close() has ended, however it ended, closePort has been called
\* and the port is closed.
C6_CloseAlwaysClosesPort ==
    (pc = "done" /\ loc.op = "close")
    => /\ loc.port \notin open
       /\ \E i \in DOMAIN log : log[i].reg = "closePort"

\* The successful reads of PRESENT_POSITION that found exactly the goal
\* pulses round(degrees * 524288 / 360).
PositionHits ==
    { i \in ReadsOf("PRESENT_POSITION") :
        log[i].v = Round(loc.degrees[1] * 524288, loc.degrees[2] * 360) }

\* C7: a blocking set_position writes round(degrees * 524288 / 360) to
\* GOAL_POSITION, returns when a read of PRESENT_POSITION has found exactly
\* that value, returns at the first such read, and is still polling or has
\* raised when no read has found it.
C7_ExactConvergence ==
    (loc.op = "set_position" /\ loc.block)
    => /\ \A i \in WritesOf("GOAL_POSITION") :
            log[i].v = Round(loc.degrees[1] * 524288, loc.degrees[2] * 360)
       /\ (pc = "done" /\ result.status = "ok") => PositionHits # {}
       /\ PositionHits # {}
          => /\ pc = "done"
             /\ result.status = "ok"
             /\ PositionHits = {Len(log)}
             /\ \E i \in WritesOf("GOAL_POSITION") : log[i].ok
       /\ pc = "sp_poll" => PositionHits = {}

\* A blocking set_position to a negative goal has returned at its third read
\* of the present position.
C7_Witness ==
    /\ loc.op = "set_position"
    /\ loc.block
    /\ pc = "done"
    /\ result.status = "ok"
    /\ loc.goal < 0
    /\ Cardinality(ReadsOf("PRESENT_POSITION")) = 3

\* The first successful read of PRESENT_VELOCITY of the call, which fixes
\* the direction, and the polls, which are the later ones.
DirectionRead ==
    CHOOSE i \in ReadsOf("PRESENT_VELOCITY") : \A j \in ReadsOf("PRESENT_VELOCITY") : i <= j

VelocityPolls ==
    IF ReadsOf("PRESENT_VELOCITY") = {} THEN {}
    ELSE ReadsOf("PRESENT_VELOCITY") \ {DirectionRead}

\* The polls that meet the threshold: at or above a goal that is strictly
\* above the value of the direction read, at or below any other goal.
VelocityHits ==
    { i \in VelocityPolls :
        IF Round(loc.dps[1] * 100, loc.dps[2] * 6) > log[DirectionRead].v
        THEN log[i].v >= Round(loc.dps[1] * 100, loc.dps[2] * 6)
        ELSE log[i].v <= Round(loc.dps[1] * 100, loc.dps[2] * 6) }

\* C8: a blocking set_velocity returns when a poll after the direction read
\* has met the threshold of the direction fixed by that one read, returns at
\* the first such poll, and is still polling or has raised when none has.
C8_DirectionalThreshold ==
    (loc.op = "set_velocity" /\ loc.block)
    => /\ (pc = "done" /\ result.status = "ok") => VelocityHits # {}
       /\ VelocityHits # {}
          => /\ pc = "done"
             /\ result.status = "ok"
             /\ VelocityHits = {Len(log)}
             /\ \E i \in WritesOf("GOAL_VELOCITY") : log[i].ok /\ i < DirectionRead
       /\ pc = "sv_poll" => VelocityHits = {}

\* A blocking set_velocity whose goal equals the value of the direction read
\* has passed a poll above the goal and returned at a poll not above it.
C8_Witness ==
    /\ loc.op = "set_velocity"
    /\ loc.block
    /\ pc = "done"
    /\ result.status = "ok"
    /\ log[DirectionRead].v = loc.goal
    /\ \E i \in VelocityPolls : log[i].v > loc.goal

\* C9: a set_velocity with block = false and no failed attempt has written
\* GOAL_VELOCITY once, with round(dps / 0.06), as its last transport call,
\* has not read PRESENT_VELOCITY, and returns goal * 0.06.
C9_NonBlockingSetVelocity ==
    (/\ pc = "done"
     /\ loc.op = "set_velocity"
     /\ ~loc.block
     /\ result.status = "ok"
     /\ faults = 0)
    => /\ WritesOf("GOAL_VELOCITY") = {Len(log)}
       /\ log[Len(log)].v = Round(loc.dps[1] * 100, loc.dps[2] * 6)
       /\ \A i \in DOMAIN log : log[i].reg # "PRESENT_VELOCITY"
       /\ SameFraction(result.value, <<log[Len(log)].v * 6, 100>>)

\* A non-blocking set_velocity has returned a value that is not its argument.
C9_Witness ==
    /\ pc = "done"
    /\ loc.op = "set_velocity"
    /\ ~loc.block
    /\ result.status = "ok"
    /\ faults = 0
    /\ ~SameFraction(result.value, loc.dps)

\* The log of the probe shows the constructor and close() both succeeding.
ProbeSucceeded ==
    /\ \E i \in DOMAIN log : log[i] = Entry("port", "ping", loc.port, TRUE)
    /\ \E i \in DOMAIN log : log[i] = Entry("w", "TORQUE_ENABLE", 1, TRUE)
    /\ \E i \in DOMAIN log : log[i] = Entry("w", "TORQUE_ENABLE", 0, TRUE)
    /\ log[Len(log)] = Entry("port", "closePort", loc.port, TRUE)

\* C10: scan() tries the ports in enumeration order and goes on to the next
\* only after a port has failed; it returns the port whose constructor and
\* close() both succeeded, the last it tried, leaving that port closed and
\* its device with torque disabled; it raises not-found only when every port
\* has failed, and raises nothing else.
C10_ScanLinearProbe ==
    /\ \A i \in DOMAIN probed : probed[i].port = PortNames[i]
    /\ \A i \in 1..(Len(probed) - 1) : probed[i].outcome = "failed"
    /\ (pc = "done" /\ loc.op = "scan")
       => \/ /\ result.status = "ok"
             /\ probed # <<>>
             /\ probed[Len(probed)].outcome = "returned"
             /\ result.value = <<probed[Len(probed)].port, 1>>
             /\ ProbeSucceeded
             /\ device.attached
             /\ device.torque_enable = 0
             /\ probed[Len(probed)].port \notin open
          \/ /\ result.status = "not_found"
             /\ Len(probed) = Len(PortNames)
             /\ \A i \in DOMAIN probed : probed[i].outcome = "failed"

\* scan() has returned the second port after the first one failed.
C10_Witness ==
    /\ pc = "done"
    /\ loc.op = "scan"
    /\ result.status = "ok"
    /\ Len(probed) = 2
    /\ probed[1].outcome = "failed"

\* The failed attempts of register transactions that _retry answered with
\* another attempt: every failed attempt of the call but the one that raised.
RetriedFailures ==
    { i \in DOMAIN log :
        /\ log[i].k \in {"r", "w"}
        /\ ~log[i].ok
        /\ ~(last.outcome = "raised" /\ last.at = i) }

\* The passes through the polling loop of a blocking set_position or
\* set_velocity: each one prints the value it has read.
PollPrints ==
    IF loc.op = "set_position" THEN ReadsOf("PRESENT_POSITION")
    ELSE IF loc.op = "set_velocity" THEN VelocityPolls
    ELSE {}

\* C11 as stated: with a callback set, the callback has been invoked in this
\* call once for every failed attempt that was retried, and for nothing else.
C11_SinkOnlyOnRetry ==
    debug_callback => sink = Cardinality(RetriedFailures)

\* C11 amended: the callback has been invoked once for every failed attempt
\* that was retried and once for every pass through the polling loop of a
\* blocking set_position / set_velocity, and never when none is set.
C11_SinkCount ==
    sink = IF debug_callback
           THEN Cardinality(RetriedFailures) + Cardinality(PollPrints)
           ELSE 0

\* A blocking call has returned after a retried failure and a poll, both
\* of which reached the callback.
C11_Witness ==
    /\ debug_callback
    /\ pc = "done"
    /\ result.status = "ok"
    /\ loc.block
    /\ RetriedFailures # {}
    /\ PollPrints # {}
    /\ sink = 2

\* The transport calls on the velocity-limit register.
LimitReads == { i \in DOMAIN log : log[i].reg = "VELCOITY_LIMIT" }

\* C12: in set_position, when a velocity limit is given (0 and negative
\* values included) every write to the profile-velocity register carries
\* round(|degrees_per_second| / 0.06) and the velocity-limit register is not
\* read; when none is given the value written is the one read from the
\* velocity-limit register; and a successful profile-velocity write precedes
\* every transport call of the mode enforcement and of the goal write.
C12_ProfileVelocityWrite ==
    loc.op = "set_position"
    => /\ loc.dps # NONE
          => /\ LimitReads = {}
             /\ \A i \in WritesOf("PROFILE_VELCOITY") :
                    log[i].v = Round(Abs(loc.dps[1]) * 100, loc.dps[2] * 6)
       /\ loc.dps = NONE
          => \A i \in WritesOf("PROFILE_VELCOITY") :
                \E j \in ReadsOf("VELCOITY_LIMIT") : j < i /\ log[i].v = log[j].v
       /\ \A j \in DOMAIN log :
            log[j].reg \in {"OPERATING_MODE", "TORQUE_ENABLE", "CONTROLLER_STATE",
                            "GOAL_POSITION", "PRESENT_POSITION"}
            => \E i \in WritesOf("PROFILE_VELCOITY") : i < j /\ log[i].ok

\* The calls of the port handler `name` in the log.
PortCalls(name) == { i \in DOMAIN log : log[i].k = "port" /\ log[i].reg = name }

\* The constructor has raised at the transport call i, its last.
RaisedAt(i) ==
    /\ i = Len(log)
    /\ pc = "done"
    /\ result.status = "raised"
    /\ handle = 0

\* C13: in the constructor, openPort, setBaudRate and ping are each called
\* at most once; a failed openPort or setBaudRate is the constructor's last
\* transport call and it raises; no ping is made before both have succeeded
\* and no register transaction before the ping has come back with a
\* successful result and error code 0; a failed ping is the last transport
\* call and the constructor raises; and the handle is returned only after a
\* successful TORQUE_ENABLE=1 write and a completed settle wait.
C13_InitOrdering ==
    loc.op = "init"
    => /\ \A name \in {"openPort", "setBaudRate", "ping"} :
            Cardinality(PortCalls(name)) <= 1
       /\ \A i \in DOMAIN log :
            (log[i].k = "port" /\ ~log[i].ok) => RaisedAt(i)
       /\ \A i \in PortCalls("setBaudRate") :
            i = 2 /\ log[1] = Entry("port", "openPort", loc.port, TRUE)
       /\ \A i \in PortCalls("ping") :
            i = 3 /\ log[2] = Entry("port", "setBaudRate", loc.port, TRUE)
       /\ \A i \in DOMAIN log :
            log[i].k \in {"r", "w"}
            => /\ i > 3
               /\ log[3] = Entry("port", "ping", loc.port, TRUE)
               /\ loc.ping = <<COMM_SUCCESS, 0>>
       /\ Len(log) >= 4 => log[4].reg = "TORQUE_ENABLE" /\ log[4].k = "w" /\ log[4].v = 1
       /\ handle # 0
          => /\ pc = "done"
             /\ result.status = "ok"
             /\ \E i \in DOMAIN log :
                    /\ log[i] = Entry("w", "TORQUE_ENABLE", 1, TRUE)
                    /\ i < Len(log)
             /\ Settled(Len(log))

\* The constructor has returned the handle after a failed attempt of the
\* torque-enable write and a settle wait of two polls.
C13_Witness ==
    /\ loc.op = "init"
    /\ pc = "done"
    /\ result.status = "ok"
    /\ handle = loc.port
    /\ faults = 1
    /\ loc.polls = 1

\* The constructor has raised at a ping that came back with an error code.
C13_WitnessPingFailed ==
    /\ loc.op = "init"
    /\ pc = "done"
    /\ result.status = "raised"
    /\ Len(log) = 3
    /\ log[3] = Entry("port", "ping", loc.port, FALSE)
    /\ device.attached

\* The failed attempts a transaction must have made before its budget can
\* be spent, an attempt taking one tick of the clock at most.
AttemptsToExpire == RetryBudget * TicksPerSecond

\* The transport calls i and j are attempts of the same transaction: the
\* same kind of access to the same register, a write with the same value.
SameTransaction(i, j) ==
    /\ log[i].k = log[j].k
    /\ log[i].reg = log[j].reg
    /\ log[i].k = "w" => log[i].v = log[j].v

\* C14: the transport call that follows a failed attempt that was retried
\* is another attempt of that same transaction (a write with the same
\* value), never an earlier transaction of the operation; and the budget is
\* the transaction's own: a transaction raises only after failed attempts of
\* its own have used up one second, whatever earlier transactions of the
\* operation have spent.
C14_RetryPerTransaction ==
    /\ \A i \in RetriedFailures :
        IF i < Len(log) THEN SameTransaction(i, i + 1) ELSE fails > 0
    /\ last.outcome = "raised"
       => /\ Len(log) >= AttemptsToExpire
          /\ \A i \in (Len(log) - AttemptsToExpire + 1)..Len(log) :
                ~log[i].ok /\ SameTransaction(i, Len(log))
    /\ fails > 0 => timeout = RetryBudget * TicksPerSecond

\* A set_position without a velocity limit has returned after one failed
\* attempt of the profile-velocity write and one of the goal write.
C14_Witness ==
    /\ loc.op = "set_position"
    /\ loc.dps = NONE
    /\ pc = "done"
    /\ result.status = "ok"
    /\ \E i \in WritesOf("PROFILE_VELCOITY") : ~log[i].ok
    /\ \E i \in WritesOf("GOAL_POSITION") : ~log[i].ok
    /\ Cardinality(LimitReads) = 1
    /\ Cardinality(WritesOf("OPERATING_MODE")) <= 1

\* value is raw read as a two's-complement number of `size` bytes: raw when
\* raw < 2^(8 * size - 1), else raw - 2^(8 * size), stated on the two words
\* of raw, and within -2^(8 * size - 1) .. 2^(8 * size - 1) - 1.
Decoded(size, raw, value) ==
    IF size = 4
    THEN /\ value % WORD = raw[2]
         /\ value \div WORD = IF raw[1] < WORD \div 2 THEN raw[1] ELSE raw[1] - WORD
         /\ value \div WORD \in (-(WORD \div 2))..(WORD \div 2 - 1)
    ELSE /\ value = IF raw[2] < 2 ^ (8 * size - 1) THEN raw[2]
                    ELSE raw[2] - 2 ^ (8 * size)
         /\ value >= -(2 ^ (8 * size - 1))
         /\ value <= 2 ^ (8 * size - 1) - 1

\* C15: the value __read returns for a raw value v of a register of N
\* bytes is v when v < 2^(8N-1) and v - 2^(8N) otherwise, within
\* -2^(8N-1) .. 2^(8N-1)-1: 255 in one byte is -1, 127 in one byte is 127,
\* 2^32-1 in four bytes is -1.
C15_SignedDecoding ==
    (loc.raw # NoRaw /\ last.outcome = "ok")
    => /\ Decoded(RegisterSize[loc.reg], loc.raw, log[last.at].v)
       /\ (RegisterSize[loc.reg] = 1 /\ loc.raw = <<0, 255>>) => log[last.at].v = -1
       /\ (RegisterSize[loc.reg] = 1 /\ loc.raw = <<0, 127>>) => log[last.at].v = 127
       /\ (RegisterSize[loc.reg] = 4 /\ loc.raw = <<65535, 65535>>)
          => log[last.at].v = -1

\* Reads have returned -1 for the raw value 2^32 - 1 of a four-byte register,
\* or -128 for the raw value 128 of a one-byte register.
C15_Witness ==
    /\ last.outcome = "ok"
    /\ \/ /\ RegisterSize[loc.reg] = 4
          /\ loc.raw = <<65535, 65535>>
          /\ log[last.at].v = -1
       \/ /\ RegisterSize[loc.reg] = 1
          /\ loc.raw = <<0, 128>>
          /\ log[last.at].v = -128

\* The goal write of the call has succeeded.
GoalWritten ==
    \E i \in WritesOf("GOAL_POSITION") \cup WritesOf("GOAL_VELOCITY") : log[i].ok

\* C16: whatever was done to the operating mode and the torque of the device
\* before the call, once the goal write of a set_position / set_velocity has
\* succeeded, and until the call ends, the operating mode of the device is
\* the mode of the call (3 for set_position, 1 for set_velocity) and its
\* torque is enabled.
C16_DeviceIsSourceOfTruth ==
    (loc.op \in {"set_position", "set_velocity"} /\ GoalWritten)
    => /\ device.operating_mode = (IF loc.op = "set_position" THEN 3 ELSE 1)
       /\ device.torque_enable = 1

\* A set_velocity has returned on a device that, when the call began, had
\* its torque off and was in the position mode.
C16_Witness ==
    /\ loc.op = "set_velocity"
    /\ pc = "done"
    /\ result.status = "ok"
    /\ loc.torque_was = 0
    /\ \E i \in ReadsOf("OPERATING_MODE") : log[i].v = 3
    /\ device.operating_mode = 1
    /\ device.torque_enable = 1

\* The transport call i is an attempt to read the controller state.
IsPoll(i) == log[i].k = "r" /\ log[i].reg = "CONTROLLER_STATE"

\* The transport call i is a write of TORQUE_ENABLE that succeeded.
IsTorqueWrite(i) == log[i].k = "w" /\ log[i].reg = "TORQUE_ENABLE" /\ log[i].ok

\* C17: the controller state is polled only after a successful write of
\* TORQUE_ENABLE (1 or 0) and the polls that followed it; the transport call
\* after that write is a poll, so there is at least one; after a poll that
\* read 4 or 6 the wait goes on with another poll and has not returned; the
\* first poll that read neither ends the wait; and a poll that raises ends
\* the call with that error.
C17_TorqueSettleWait ==
    /\ \A i \in DOMAIN log :
        IsPoll(i) => /\ i > 1
                     /\ IsTorqueWrite(i - 1) \/ IsPoll(i - 1)
                     /\ (IsPoll(i - 1) /\ log[i - 1].ok) => log[i - 1].v \in {4, 6}
    /\ \A i \in DOMAIN log :
        IsTorqueWrite(i)
        => /\ log[i].v \in {0, 1}
           /\ IF i < Len(log) THEN IsPoll(i + 1) ELSE pc = "wait_read"
    /\ \A i \in DOMAIN log :
        (IsPoll(i) /\ log[i].ok /\ log[i].v \in {4, 6})
        => IF i < Len(log) THEN IsPoll(i + 1) ELSE pc = "wait_read"
    /\ \A i \in DOMAIN log :
        (IsPoll(i) /\ log[i].ok /\ log[i].v \notin {4, 6})
        => IF i < Len(log) THEN ~IsPoll(i + 1) ELSE pc # "wait_read"
    /\ pc = "wait_read" => /\ log # <<>>
                           /\ IsTorqueWrite(Len(log)) \/ IsPoll(Len(log))
    /\ (last.outcome = "raised" /\ IsPoll(last.at))
       => /\ pc = "done"
          /\ result.status = "raised"
          /\ last.at = Len(log)

\* A settle wait has returned at its third poll, after a poll that read 4
\* and one that read 6.
C17_Witness ==
    /\ Len(log) >= 4
    /\ IsTorqueWrite(Len(log) - 3)
    /\ IsPoll(Len(log)) /\ log[Len(log)].ok /\ log[Len(log)].v = 2
    /\ IsPoll(Len(log) - 1) /\ log[Len(log) - 1].ok
    /\ IsPoll(Len(log) - 2) /\ log[Len(log) - 2].ok
    /\ log[Len(log) - 1].v # log[Len(log) - 2].v
    /\ pc # "wait_read"

\* A poll of the settle wait has raised and ended the call.
C17_WitnessRaised ==
    /\ last.outcome = "raised"
    /\ IsPoll(last.at)
    /\ pc = "done"

\* C18: a blocking set_velocity whose goal write has succeeded ends: with
\* every transaction succeeding in the end and the velocity of the device
\* staying within the noise around the goal, having crossed the goal upwards
\* at least once, the polling loop is left.
C18_BlockingSetVelocityReturns ==
    (loc.op = "set_velocity" /\ loc.block /\ pc = "sv_pre") ~> (pc = "done")

\* C19: a transaction that has ended has made an attempt; a successful
\* attempt ends the transaction with its result, also when it ends at or
\* after the deadline, and the operation goes on; while a transaction is
\* being retried the failure before was seen strictly before the deadline;
\* and a transaction that raised saw its last failure at or after the
\* deadline and made no further attempt.
C19_BudgetConsultedAfterFailure ==
    /\ last.outcome # "none"
       => /\ last.at \in DOMAIN log
          /\ log[last.at].k \in {"r", "w"}
    /\ last.outcome = "ok"
       => /\ log[last.at].ok
          /\ result.status # "raised"
    /\ fails > 0
       => /\ now < timeout
          /\ timeout = RetryBudget * TicksPerSecond
          /\ ~log[Len(log)].ok
    /\ last.outcome = "raised"
       => /\ last.late
          /\ ~log[last.at].ok
          /\ last.at = Len(log)
          /\ pc = "done"

\* A transaction has returned the result of an attempt that ended at or
\* after its deadline, after a failure, and the call has gone on to return.
C19_Witness ==
    /\ last.outcome = "ok"
    /\ last.late
    /\ last.fails > 0
    /\ pc = "done"
    /\ result.status = "ok"

\* C20: a port whose probe has failed is not open: the constructor that
\* raises after openPort has succeeded (at setBaudRate, at the ping, in the
\* torque enable) has closed the port, and when scan() has returned or
\* raised no port it probed without success is open.
C20_NoPortLeftOpen ==
    /\ \A i \in DOMAIN probed :
        probed[i].outcome = "failed" => probed[i].port \notin open
    /\ (pc = "done" /\ loc.op = "scan" /\ result.status = "not_found") => open = {}

====
